---------------------------- MODULE Spec2Model ----------------------------
(***************************************************************************)
(* Model of the mutating admission webhook of pkg/webhook/mutating:       *)
(* NewWebhook builds an instrumented webhook around mutationWebhook, and   *)
(* mutationWebhook.Review runs reconstruction, mutation, serialisation,    *)
(* diff and response assembly for one admission review.                    *)
(*                                                                         *)
(* JSON documents are flat objects: a raw payload is its encoding tag and  *)
(* the ordered list of its members as the bytes give them; a decoded       *)
(* document is the function from member name to value.  Durations, log     *)
(* lines and the request's namespace and name (only logged) are left out.  *)
(***************************************************************************)
EXTENDS Integers, Sequences, FiniteSets, TLC

\* Longest member list of a raw payload of a request.
MaxMembers == 2

\* The review slots; Spec runs reviews in the first one only.
Reviews == {"r1", "r2"}

(***************************************************************************)
(* Documents                                                               *)
(***************************************************************************)
\* Member names: the type discriminator, a label of the metadata, and a
\* member the static prototype's type does not declare.
Keys == {"kind", "foo", "extra"}

\* The members the static prototype's type declares.
TypedKeys == {"kind", "foo"}

\* A label value that is not a JSON string (a typed decode rejects it).
NotAString == "[1]"

RawValues(k) ==
    IF k = "kind" THEN {"Pod"}
    ELSE IF k = "foo" THEN {"a", NotAString}
    ELSE {"x"}

Members == UNION {{<<k, v>> : v \in RawValues(k)} : k \in Keys}

DistinctKeys(m) == \A i, j \in 1..Len(m) : m[i][1] = m[j][1] => i = j

MemberLists ==
    {m \in UNION {[1..n -> Members] : n \in 0..MaxMembers} : DistinctKeys(m)}

EmptyRaw == [enc |-> "empty", members |-> <<>>]

MalformedRaw == [enc |-> "malformed", members |-> <<>>]

JSONRaw(m) == [enc |-> "json", members |-> m]

RawSet == {JSONRaw(m) : m \in MemberLists} \cup {EmptyRaw, MalformedRaw}

\* json.Unmarshal of an object: member name -> value.
Parse(m) ==
    [k \in {m[i][1] : i \in 1..Len(m)} |->
        m[CHOOSE i \in 1..Len(m) : m[i][1] = k][2]]

Restrict(doc, S) == [k \in (DOMAIN doc) \cap S |-> doc[k]]

\* Member order of json.Marshal: a struct's fields in declaration order, a
\* map's keys sorted.
StructOrder == <<"kind", "foo">>

MapOrder == <<"extra", "foo", "kind">>

InDoc(doc, k) == k \in DOMAIN doc

Emit(order, doc) ==
    LET present == SelectSeq(order, LAMBDA k : InDoc(doc, k))
    IN  [i \in 1..Len(present) |-> <<present[i], doc[present[i]]>>]

(***************************************************************************)
(* Errors, responses                                                       *)
(***************************************************************************)
Nil == [isErr |-> FALSE, msg |-> ""]

Err(text) == [isErr |-> TRUE, msg |-> text]

NoPatch == [set |-> FALSE, ops |-> <<>>]

NoResult == [set |-> FALSE, Message |-> "", Status |-> ""]

NoResponse ==
    [nil |-> TRUE, UID |-> "", Allowed |-> FALSE, Patch |-> NoPatch,
     PatchType |-> "", Result |-> NoResult]

jsonPatchType == "JSONPatch"

(***************************************************************************)
(* WebhookConfig, NewWebhook                                               *)
(***************************************************************************)
\* Name is the configured string, Mutator and Obj say whether the field is
\* set, a collaborator is "nil" or "user" (and "dummy" once defaulted).
Configs ==
    [Name : {"", "wh"}, Mutator : BOOLEAN, Obj : BOOLEAN,
     Logger : {"nil", "user"}, MetricsRecorder : {"nil", "user"},
     Tracer : {"nil", "user"}]

\* The configurations the reviews are run under: the collaborators all given
\* or all left nil.
ReviewConfigs ==
    {c \in Configs : c.Logger = c.MetricsRecorder /\ c.Logger = c.Tracer}

NoConfig ==
    [Name |-> "", Mutator |-> FALSE, Obj |-> FALSE, Logger |-> "nil",
     MetricsRecorder |-> "nil", Tracer |-> "nil"]

\* The object cfg.Obj refers to when it is set: an empty instance of its type.
Prototype == [type |-> "typed", meta |-> TRUE, fields |-> <<>>]

Default(c) == IF c = "nil" THEN "dummy" ELSE c

\* Faulty variant: the Mutator is not required.
defaultsMutatorNotRequired(c) ==
    IF c.Name = "" THEN [cfg |-> c, err |-> Err("name is required")]
    ELSE [cfg |-> [c EXCEPT !.Logger = Default(@),
                            !.MetricsRecorder = Default(@),
                            !.Tracer = Default(@)],
          err |-> Nil]

defaults(c) ==
    IF c.Name = "" THEN [cfg |-> c, err |-> Err("name is required")]
    ELSE IF ~c.Mutator THEN [cfg |-> c, err |-> Err("mutator is required")]
    ELSE [cfg |-> [c EXCEPT !.Logger = Default(@),
                            !.MetricsRecorder = Default(@),
                            !.Tracer = Default(@)],
          err |-> Nil]

NilWebhook ==
    [nil |-> TRUE, instrumented |-> FALSE, objectCreator |-> "", cfg |-> <<>>,
     ReviewKind |-> "", WebhookName |-> "", MetricsRecorder |-> "", Tracer |-> ""]

\* Faulty variant: the mutationWebhook is returned without its instrumentation.
NewWebhookBare(c) ==
    LET d == defaults(c)
    IN  IF d.err.isErr
        THEN [webhook |-> NilWebhook,
              err |-> Err("invalid configuration: " \o d.err.msg)]
        ELSE [webhook |->
                [nil |-> FALSE, instrumented |-> FALSE,
                 objectCreator |-> IF d.cfg.Obj THEN "static" ELSE "dynamic",
                 cfg |-> d.cfg,
                 ReviewKind |-> "", WebhookName |-> "",
                 MetricsRecorder |-> "", Tracer |-> ""],
              err |-> Nil]

\* The webhook NewWebhook returns: the mutationWebhook and, around it, the
\* instrumenting.Webhook.
NewWebhook(c) ==
    LET d == defaults(c)
    IN  IF d.err.isErr
        THEN [webhook |-> NilWebhook,
              err |-> Err("invalid configuration: " \o d.err.msg)]
        ELSE [webhook |->
                [nil |-> FALSE, instrumented |-> TRUE,
                 objectCreator |-> IF d.cfg.Obj THEN "static" ELSE "dynamic",
                 cfg |-> d.cfg,
                 ReviewKind |-> "mutating", WebhookName |-> d.cfg.Name,
                 MetricsRecorder |-> d.cfg.MetricsRecorder,
                 Tracer |-> d.cfg.Tracer],
              err |-> Nil]

(***************************************************************************)
(* The request                                                             *)
(***************************************************************************)
Operations == {"CREATE", "UPDATE", "DELETE", "CONNECT"}

UIDs == {"u1", "u2"}

AllRequests ==
    [UID : UIDs, Operation : Operations, Object : RawSet, OldObject : RawSet]

\* The requests the reviews are run on: the payload of the operation (the
\* old object on Delete, the object otherwise) is any raw payload, the other
\* one is absent, malformed or a small document.
OtherRaws == {EmptyRaw, MalformedRaw, JSONRaw(<<<<"kind", "Pod">>>>)}

Requests ==
    {ar \in AllRequests :
        IF ar.Operation = "DELETE" THEN ar.Object \in OtherRaws
        ELSE ar.OldObject \in OtherRaws}

\* Three requests for the specifications that vary something else: a
\* creation whose object has a label and a member the static type lacks (and
\* no type discriminator), a deletion with the old object only, an update
\* whose object does not decode.
SampleRequests ==
    {[UID |-> "u1", Operation |-> "CREATE",
      Object |-> JSONRaw(<<<<"foo", "a">>, <<"extra", "x">>>>),
      OldObject |-> EmptyRaw],
     [UID |-> "u2", Operation |-> "DELETE",
      Object |-> EmptyRaw,
      OldObject |-> JSONRaw(<<<<"kind", "Pod">>, <<"foo", "a">>>>)],
     [UID |-> "u2", Operation |-> "UPDATE",
      Object |-> MalformedRaw,
      OldObject |-> JSONRaw(<<<<"kind", "Pod">>>>)]}

(***************************************************************************)
(* The stages of mutationWebhook.Review                                    *)
(***************************************************************************)
\* Faulty variant: the object's bytes whatever the operation.
SelectRawObjectOnly(ar) == ar.Object

\* The raw bytes Review hands on: the old object's on Delete.
SelectRaw(ar) ==
    IF ar.Operation = "DELETE" THEN ar.OldObject ELSE ar.Object

NoObject == [type |-> "none", meta |-> FALSE, fields |-> <<>>]

\* objectCreator.NewObject: the static creator decodes into a new instance of
\* the prototype's type, the dynamic one into a schema-free object of the
\* type the payload names.  `meta` says whether the object returned (a
\* runtime.Object) is a metav1.Object too.
NewObject(creator, rawObj, meta) ==
    IF rawObj.enc = "empty"
    THEN [obj |-> NoObject, err |-> Err("decode: empty payload")]
    ELSE IF rawObj.enc # "json"
    THEN [obj |-> NoObject, err |-> Err("decode: malformed payload")]
    ELSE LET doc == Parse(rawObj.members)
         IN  IF creator = "static"
             THEN IF InDoc(doc, "foo") /\ doc["foo"] = NotAString
                  THEN [obj |-> NoObject,
                        err |-> Err("decode: incompatible with the type")]
                  ELSE [obj |-> [type |-> "typed", meta |-> meta,
                                 fields |-> Restrict(doc, TypedKeys)],
                        err |-> Nil]
             ELSE IF ~InDoc(doc, "kind")
                  THEN [obj |-> NoObject, err |-> Err("decode: unknown type")]
                  ELSE [obj |-> [type |-> "unstructured", meta |-> meta,
                                 fields |-> doc],
                        err |-> Nil]

\* What a Mutator may do: fail with an error text, or change the object in
\* place (nothing, set the label, drop the label) and say whether to stop.
ErrTexts == {"forbidden change", ""}

Changes == {"none", "setFoo", "delFoo"}

MutatorResults ==
    {[err |-> Err(e), change |-> "none", stop |-> FALSE] : e \in ErrTexts}
    \cup {[err |-> Nil, change |-> c, stop |-> s] : c \in Changes, s \in BOOLEAN}

\* A context: whether it is cancelled, and where the review stood when it was.
Background == [cancelled |-> FALSE, at |-> ""]

\* What the Mutator may do under a context: it sees the context, so under a
\* cancelled one it may also fail with the context's error.
MutatorResultsOn(c) ==
    MutatorResults
    \cup (IF c.cancelled
          THEN {[err |-> Err("context canceled"), change |-> "none", stop |-> FALSE]}
          ELSE {})

ApplyChange(fields, c) ==
    IF c = "setFoo"
    THEN [k \in (DOMAIN fields) \cup {"foo"} |->
            IF k = "foo" THEN "bar" ELSE fields[k]]
    ELSE IF c = "delFoo" THEN Restrict(fields, (DOMAIN fields) \ {"foo"})
    ELSE fields

Mutate(obj, m) == [obj EXCEPT !.fields = ApplyChange(@, m.change)]

\* json.Marshal(obj).
Marshal(obj) ==
    JSONRaw(Emit(IF obj.type = "typed" THEN StructOrder ELSE MapOrder,
                 obj.fields))

\* jsonpatch.CreatePatch: nothing for equal bytes; else an add or replace for
\* every member of b that a lacks or holds with another value, then a remove
\* for every member of a that b lacks.  The members are visited in map
\* order, so each group comes in any order.
Op(op, k, v) == [op |-> op, path |-> k, value |-> v]

AddReplaceOps(a, b) ==
    {Op("add", k, b[k]) : k \in (DOMAIN b) \ (DOMAIN a)}
    \cup {Op("replace", k, b[k]) : k \in {x \in (DOMAIN a) \cap (DOMAIN b) : a[x] # b[x]}}

RemoveOps(a, b) == {Op("remove", k, "") : k \in (DOMAIN a) \ (DOMAIN b)}

Orderings(S) ==
    {s \in [1..Cardinality(S) -> S] : \A i, j \in 1..Cardinality(S) : s[i] = s[j] => i = j}

CreatePatch(rawObj, mutatedJSON) ==
    IF rawObj = mutatedJSON THEN {<<>>}
    ELSE LET a == Parse(rawObj.members)
             b == Parse(mutatedJSON.members)
         IN  {p \o q : p \in Orderings(AddReplaceOps(a, b)),
                       q \in Orderings(RemoveOps(a, b))}

\* json.Marshal(patch): the patch bytes of the response.
MarshalPatch(patch) == [set |-> TRUE, ops |-> patch]

\* Faulty variant: the response carries the patch and leaves Allowed unset.
ForgeResponseNotAllowed(auid, marshalledPatch) ==
    [nil |-> FALSE, UID |-> auid, Allowed |-> FALSE, Patch |-> marshalledPatch,
     PatchType |-> jsonPatchType, Result |-> NoResult]

\* Faulty variant: the allowed response leaves the UID unset.
ForgeResponseNoUID(auid, marshalledPatch) ==
    [nil |-> FALSE, UID |-> "", Allowed |-> TRUE, Patch |-> marshalledPatch,
     PatchType |-> jsonPatchType, Result |-> NoResult]

\* The allowed response forged at the end of mutatingAdmissionReview.
ForgeResponse(auid, marshalledPatch) ==
    [nil |-> FALSE, UID |-> auid, Allowed |-> TRUE, Patch |-> marshalledPatch,
     PatchType |-> jsonPatchType, Result |-> NoResult]

\* helpers.ToAdmissionErrorResponse: the denial carrying the error's text.
ToAdmissionErrorResponse(uid, err) ==
    [nil |-> FALSE, UID |-> uid, Allowed |-> FALSE, Patch |-> NoPatch,
     PatchType |-> "",
     Result |-> [set |-> TRUE, Message |-> err.msg, Status |-> "Failure"]]

\* Faulty variant: the error is wrapped before it is handed on.
toAdmissionErrorResponseWrapped(ar, err) ==
    ToAdmissionErrorResponse(ar.UID, Err("webhook error: " \o err.msg))

\* Faulty variant: a fresh error without text is handed on.
toAdmissionErrorResponseNoText(ar, err) ==
    ToAdmissionErrorResponse(ar.UID, Err(""))

toAdmissionErrorResponse(ar, err) == ToAdmissionErrorResponse(ar.UID, err)

(***************************************************************************)
(* State                                                                   *)
(***************************************************************************)
VARIABLES
    built,        \* the configuration given to NewWebhook, the prototype it
                  \* names, and what NewWebhook returned
    ctx,          \* per review: the context given to Review
    req,          \* per review: the admission request
    pc,           \* per review: where the review stands
    raw,          \* per review: the raw bytes selected
    obj,          \* per review: the reconstructed object, mutated in place
    mutatedJSON,  \* per review: the serialisation of the object
    patch,        \* per review: the operations CreatePatch returned
    resp,         \* per review: what mutationWebhook.Review returned
    out,          \* per review: what the webhook handed back to its caller
    calls,        \* per review: how often each collaborator was invoked
    failed,       \* per review: the stage that returned an error, or "none"
    hist,         \* per review: the arguments and results of the collaborators
    spans,        \* the tracer's spans
    metrics       \* the metrics recorder's samples

vars ==
    <<built, ctx, req, pc, raw, obj, mutatedJSON, patch, resp, out, calls,
      failed, hist, spans, metrics>>

NoRaw == [enc |-> "none", members |-> <<>>]

NoRequest == [UID |-> "", Operation |-> "", Object |-> NoRaw, OldObject |-> NoRaw]

NoMutation == [err |-> Nil, change |-> "none", stop |-> FALSE, returned |-> FALSE]

NoCalls == [NewObject |-> 0, Mutate |-> 0, Marshal |-> 0, CreatePatch |-> 0, MarshalPatch |-> 0]

NoHist ==
    [newObjectArg |-> NoRaw, reconstructed |-> NoObject, mutation |-> NoMutation,
     patchBefore |-> NoRaw, patchAfter |-> NoRaw]

Init ==
    /\ built = [called |-> FALSE, given |-> NoConfig, proto |-> NoObject,
                webhook |-> NilWebhook, err |-> Nil]
    /\ ctx = [r \in Reviews |-> Background]
    /\ req = [r \in Reviews |-> NoRequest]
    /\ pc = [r \in Reviews |-> "Idle"]
    /\ raw = [r \in Reviews |-> NoRaw]
    /\ obj = [r \in Reviews |-> NoObject]
    /\ mutatedJSON = [r \in Reviews |-> NoRaw]
    /\ patch = [r \in Reviews |-> <<>>]
    /\ resp = [r \in Reviews |-> NoResponse]
    /\ out = [r \in Reviews |-> NoResponse]
    /\ calls = [r \in Reviews |-> NoCalls]
    /\ failed = [r \in Reviews |-> "none"]
    /\ hist = [r \in Reviews |-> NoHist]
    /\ spans = <<>>
    /\ metrics = <<>>

w == built.webhook

(***************************************************************************)
(* Construction                                                            *)
(***************************************************************************)
Construct(configs) ==
    /\ ~built.called
    /\ \E c \in configs :
         built' = [called |-> TRUE, given |-> c,
                   proto |-> IF c.Obj THEN Prototype ELSE NoObject,
                   webhook |-> NewWebhook(c).webhook,
                   err |-> NewWebhook(c).err]
    /\ UNCHANGED <<ctx, req, pc, raw, obj, mutatedJSON, patch, resp, out, calls,
                   failed, hist, spans, metrics>>

(***************************************************************************)
(* The instrumenting.Webhook around the review                             *)
(***************************************************************************)
\* The caller invokes Review of the webhook NewWebhook returned.
Call(r, requests) ==
    /\ built.called /\ ~w.nil
    /\ pc[r] = "Idle"
    /\ \E ar \in requests : req' = [req EXCEPT ![r] = ar]
    /\ pc' = [pc EXCEPT ![r] = "Called"]
    /\ UNCHANGED <<built, ctx, raw, obj, mutatedJSON, patch, resp, out, calls,
                   failed, hist, spans, metrics>>

\* The caller cancels the context of a review under way.
Cancel(r) ==
    /\ pc[r] \notin {"Idle", "Done"}
    /\ ~ctx[r].cancelled
    /\ ctx' = [ctx EXCEPT ![r] = [cancelled |-> TRUE, at |-> pc[r]]]
    /\ UNCHANGED <<built, req, pc, raw, obj, mutatedJSON, patch, resp, out,
                   calls, failed, hist, spans, metrics>>

StartSpan(r) ==
    [owner |-> r, webhook |-> w.WebhookName, kind |-> w.ReviewKind,
     finished |-> FALSE, allowed |-> FALSE, error |-> FALSE]

\* Before the review: start the span.
InstrumentStart(r) ==
    /\ pc[r] = "Called"
    /\ spans' = IF w.instrumented THEN Append(spans, StartSpan(r)) ELSE spans
    /\ pc' = [pc EXCEPT ![r] = "Start"]
    /\ UNCHANGED <<built, ctx, req, raw, obj, mutatedJSON, patch, resp, out, calls,
                   failed, hist, metrics>>

FinishSpan(s, response) ==
    [s EXCEPT !.finished = TRUE, !.allowed = response.Allowed,
              !.error = ~response.Allowed]

Sample(response) ==
    [webhook |-> w.WebhookName, kind |-> w.ReviewKind, allowed |-> response.Allowed]

\* Faulty variant: the decorator hands back a response of its own that keeps
\* only the verdict.
InstrumentEndOwnResponse(r) ==
    /\ pc[r] = "Responded"
    /\ spans' = [i \in 1..Len(spans) |->
                    IF spans[i].owner = r THEN FinishSpan(spans[i], resp[r])
                    ELSE spans[i]]
    /\ metrics' = Append(metrics, Sample(resp[r]))
    /\ out' = [out EXCEPT ![r] = [resp[r] EXCEPT !.Patch = NoPatch, !.Result = NoResult]]
    /\ pc' = [pc EXCEPT ![r] = "Done"]
    /\ UNCHANGED <<built, ctx, req, raw, obj, mutatedJSON, patch, resp, calls,
                   failed, hist>>

\* After the review: tag and finish the span, record the sample, hand the
\* response back.
InstrumentEnd(r) ==
    /\ pc[r] = "Responded"
    /\ spans' = IF w.instrumented
                THEN [i \in 1..Len(spans) |->
                        IF spans[i].owner = r THEN FinishSpan(spans[i], resp[r])
                        ELSE spans[i]]
                ELSE spans
    /\ metrics' = IF w.instrumented THEN Append(metrics, Sample(resp[r])) ELSE metrics
    /\ out' = [out EXCEPT ![r] = resp[r]]
    /\ pc' = [pc EXCEPT ![r] = "Done"]
    /\ UNCHANGED <<built, ctx, req, raw, obj, mutatedJSON, patch, resp, calls,
                   failed, hist>>

(***************************************************************************)
(* mutationWebhook.Review                                                  *)
(***************************************************************************)
\* A stage returned err: Review returns the denial at once.
Deny(r, stage, err) ==
    /\ resp' = [resp EXCEPT ![r] = toAdmissionErrorResponse(req[r], err)]
    /\ failed' = [failed EXCEPT ![r] = stage]
    /\ pc' = [pc EXCEPT ![r] = "Responded"]

ReviewSelect(r) ==
    /\ pc[r] = "Start"
    /\ raw' = [raw EXCEPT ![r] = SelectRaw(req[r])]
    /\ pc' = [pc EXCEPT ![r] = "Selected"]
    /\ UNCHANGED <<built, ctx, req, obj, mutatedJSON, patch, resp, out, calls,
                   failed, hist, spans, metrics>>

\* Faulty variant: a failed reconstruction is attempted once more before denying.
ReviewNewObjectRetry(r) ==
    /\ pc[r] = "Selected"
    /\ \E meta \in BOOLEAN :
         LET res == NewObject(w.objectCreator, raw[r], meta)
         IN  /\ hist' = [hist EXCEPT ![r].newObjectArg = raw[r],
                                     ![r].reconstructed = res.obj]
             /\ IF res.err.isErr
                THEN /\ calls' = [calls EXCEPT ![r].NewObject = @ + 2]
                     /\ Deny(r, "NewObject", res.err)
                     /\ obj' = obj
                ELSE /\ calls' = [calls EXCEPT ![r].NewObject = @ + 1]
                     /\ obj' = [obj EXCEPT ![r] = res.obj]
                     /\ pc' = [pc EXCEPT ![r] = "Created"]
                     /\ UNCHANGED <<resp, failed>>
    /\ UNCHANGED <<built, ctx, req, raw, mutatedJSON, patch, out, spans, metrics>>

\* Faulty variant: the static creator decodes into the configured object itself.
ReviewNewObjectIntoPrototype(r) ==
    /\ pc[r] = "Selected"
    /\ calls' = [calls EXCEPT ![r].NewObject = @ + 1]
    /\ \E meta \in BOOLEAN :
         LET res == NewObject(w.objectCreator, raw[r], meta)
         IN  /\ hist' = [hist EXCEPT ![r].newObjectArg = raw[r],
                                     ![r].reconstructed = res.obj]
             /\ IF res.err.isErr
                THEN /\ Deny(r, "NewObject", res.err)
                     /\ UNCHANGED <<obj, built>>
                ELSE /\ obj' = [obj EXCEPT ![r] = res.obj]
                     /\ built' = [built EXCEPT !.proto =
                                    IF w.objectCreator = "static" THEN res.obj ELSE @]
                     /\ pc' = [pc EXCEPT ![r] = "Created"]
                     /\ UNCHANGED <<resp, failed>>
    /\ UNCHANGED <<ctx, req, raw, mutatedJSON, patch, out, spans, metrics>>

ReviewNewObject(r) ==
    /\ pc[r] = "Selected"
    /\ calls' = [calls EXCEPT ![r].NewObject = @ + 1]
    /\ \E meta \in BOOLEAN :
         LET res == NewObject(w.objectCreator, raw[r], meta)
         IN  /\ hist' = [hist EXCEPT ![r].newObjectArg = raw[r],
                                     ![r].reconstructed = res.obj]
             /\ IF res.err.isErr
                THEN /\ Deny(r, "NewObject", res.err)
                     /\ obj' = obj
                ELSE /\ obj' = [obj EXCEPT ![r] = res.obj]
                     /\ pc' = [pc EXCEPT ![r] = "Created"]
                     /\ UNCHANGED <<resp, failed>>
    /\ UNCHANGED <<built, ctx, req, raw, mutatedJSON, patch, out, spans, metrics>>

ReviewTypeAssert(r) ==
    /\ pc[r] = "Created"
    /\ IF obj[r].meta
       THEN /\ pc' = [pc EXCEPT ![r] = "Decoded"]
            /\ UNCHANGED <<resp, failed>>
       ELSE Deny(r, "TypeAssert",
                 Err("impossible to type assert the deep copy to metav1.Object"))
    /\ UNCHANGED <<built, ctx, req, raw, obj, mutatedJSON, patch, out, calls, hist,
                   spans, metrics>>

(***************************************************************************)
(* mutationWebhook.mutatingAdmissionReview                                 *)
(***************************************************************************)
\* Faulty variant: the Mutator is invoked a second time.
MutateCallTwice(r) ==
    /\ pc[r] = "Decoded"
    /\ calls' = [calls EXCEPT ![r].Mutate = @ + 2]
    /\ pc' = [pc EXCEPT ![r] = "Mutating"]
    /\ UNCHANGED <<built, ctx, req, raw, obj, mutatedJSON, patch, resp, out, failed,
                   hist, spans, metrics>>

\* w.mutator.Mutate is called; it may never return.
MutateCall(r) ==
    /\ pc[r] = "Decoded"
    /\ calls' = [calls EXCEPT ![r].Mutate = @ + 1]
    /\ pc' = [pc EXCEPT ![r] = "Mutating"]
    /\ UNCHANGED <<built, ctx, req, raw, obj, mutatedJSON, patch, resp, out, failed,
                   hist, spans, metrics>>

\* Faulty variant: the Mutator's error is not looked at.
MutateReturnErrIgnored(r) ==
    /\ pc[r] = "Mutating"
    /\ \E m \in MutatorResultsOn(ctx[r]) :
         /\ hist' = [hist EXCEPT ![r].mutation =
                        [err |-> m.err, change |-> m.change, stop |-> m.stop,
                         returned |-> TRUE]]
         /\ obj' = [obj EXCEPT ![r] = Mutate(@, m)]
         /\ failed' = [failed EXCEPT ![r] = IF m.err.isErr THEN "Mutate" ELSE @]
         /\ pc' = [pc EXCEPT ![r] = "Mutated"]
         /\ UNCHANGED resp
    /\ UNCHANGED <<built, ctx, req, raw, mutatedJSON, patch, out, calls, spans, metrics>>

\* Faulty variant: stop=true ends the review at once, allowed, without a diff.
MutateReturnStopEarly(r) ==
    /\ pc[r] = "Mutating"
    /\ \E m \in MutatorResultsOn(ctx[r]) :
         /\ hist' = [hist EXCEPT ![r].mutation =
                        [err |-> m.err, change |-> m.change, stop |-> m.stop,
                         returned |-> TRUE]]
         /\ obj' = [obj EXCEPT ![r] = Mutate(@, m)]
         /\ IF m.err.isErr
            THEN Deny(r, "Mutate", m.err)
            ELSE IF m.stop
            THEN /\ resp' = [resp EXCEPT ![r] =
                               ForgeResponse(req[r].UID, MarshalPatch(<<>>))]
                 /\ pc' = [pc EXCEPT ![r] = "Responded"]
                 /\ UNCHANGED failed
            ELSE /\ pc' = [pc EXCEPT ![r] = "Mutated"]
                 /\ UNCHANGED <<resp, failed>>
    /\ UNCHANGED <<built, ctx, req, raw, mutatedJSON, patch, out, calls, spans, metrics>>

\* Faulty variant: the context is looked at once the Mutator has returned, and a
\* cancelled one ends the review with a denial.
MutateReturnCtxChecked(r) ==
    /\ pc[r] = "Mutating"
    /\ \E m \in MutatorResultsOn(ctx[r]) :
         /\ hist' = [hist EXCEPT ![r].mutation =
                        [err |-> m.err, change |-> m.change, stop |-> m.stop,
                         returned |-> TRUE]]
         /\ obj' = [obj EXCEPT ![r] = Mutate(@, m)]
         /\ IF m.err.isErr
            THEN Deny(r, "Mutate", m.err)
            ELSE IF ctx[r].cancelled
            THEN Deny(r, "Mutate", Err("context canceled"))
            ELSE /\ pc' = [pc EXCEPT ![r] = "Mutated"]
                 /\ UNCHANGED <<resp, failed>>
    /\ UNCHANGED <<built, ctx, req, raw, mutatedJSON, patch, out, calls, spans, metrics>>

\* Faulty variant: the reviews in flight share one object, so the Mutator's change
\* lands in every object reconstructed so far.
MutateReturnShared(r) ==
    /\ pc[r] = "Mutating"
    /\ \E m \in MutatorResultsOn(ctx[r]) :
         /\ hist' = [hist EXCEPT ![r].mutation =
                        [err |-> m.err, change |-> m.change, stop |-> m.stop,
                         returned |-> TRUE]]
         /\ obj' = [q \in Reviews |->
                      IF obj[q] # NoObject THEN Mutate(obj[q], m) ELSE obj[q]]
         /\ IF m.err.isErr
            THEN Deny(r, "Mutate", m.err)
            ELSE /\ pc' = [pc EXCEPT ![r] = "Mutated"]
                 /\ UNCHANGED <<resp, failed>>
    /\ UNCHANGED <<built, ctx, req, raw, mutatedJSON, patch, out, calls, spans, metrics>>

MutateReturn(r) ==
    /\ pc[r] = "Mutating"
    /\ \E m \in MutatorResultsOn(ctx[r]) :
         /\ hist' = [hist EXCEPT ![r].mutation =
                        [err |-> m.err, change |-> m.change, stop |-> m.stop,
                         returned |-> TRUE]]
         /\ obj' = [obj EXCEPT ![r] = Mutate(@, m)]
         /\ IF m.err.isErr
            THEN Deny(r, "Mutate", m.err)
            ELSE /\ pc' = [pc EXCEPT ![r] = "Mutated"]
                 /\ UNCHANGED <<resp, failed>>
    /\ UNCHANGED <<built, ctx, req, raw, mutatedJSON, patch, out, calls, spans, metrics>>

\* json.Marshal may fail on a value it cannot encode.
MarshalErrors == {Nil, Err("json: unsupported value")}

\* Faulty variant: a serialisation error is noted and the review goes on to the diff.
ReviewMarshalGoesOn(r) ==
    /\ pc[r] = "Mutated"
    /\ calls' = [calls EXCEPT ![r].Marshal = @ + 1]
    /\ \E err \in MarshalErrors :
         IF err.isErr
         THEN /\ failed' = [failed EXCEPT ![r] = "Marshal"]
              /\ pc' = [pc EXCEPT ![r] = "Serialized"]
              /\ UNCHANGED <<mutatedJSON, resp>>
         ELSE /\ mutatedJSON' = [mutatedJSON EXCEPT ![r] = Marshal(obj[r])]
              /\ pc' = [pc EXCEPT ![r] = "Serialized"]
              /\ UNCHANGED <<resp, failed>>
    /\ UNCHANGED <<built, ctx, req, raw, obj, patch, out, hist, spans, metrics>>

ReviewMarshal(r) ==
    /\ pc[r] = "Mutated"
    /\ calls' = [calls EXCEPT ![r].Marshal = @ + 1]
    /\ \E err \in MarshalErrors :
         IF err.isErr
         THEN /\ Deny(r, "Marshal", err)
              /\ UNCHANGED mutatedJSON
         ELSE /\ mutatedJSON' = [mutatedJSON EXCEPT ![r] = Marshal(obj[r])]
              /\ pc' = [pc EXCEPT ![r] = "Serialized"]
              /\ UNCHANGED <<resp, failed>>
    /\ UNCHANGED <<built, ctx, req, raw, obj, patch, out, hist, spans, metrics>>

\* jsonpatch.CreatePatch may return an error.
CreatePatchErrors == {Nil, Err("Invalid JSON Document")}

\* Faulty variant: the patch is computed from the serialisation of the object as it
\* was reconstructed, not from the raw bytes.
ReviewCreatePatchFromObject(r) ==
    /\ pc[r] = "Serialized"
    /\ calls' = [calls EXCEPT ![r].CreatePatch = @ + 1]
    /\ hist' = [hist EXCEPT ![r].patchBefore = Marshal(hist[r].reconstructed),
                            ![r].patchAfter = mutatedJSON[r]]
    /\ \E err \in CreatePatchErrors :
         IF err.isErr
         THEN /\ Deny(r, "CreatePatch", err)
              /\ UNCHANGED patch
         ELSE /\ \E p \in CreatePatch(Marshal(hist[r].reconstructed), mutatedJSON[r]) :
                   patch' = [patch EXCEPT ![r] = p]
              /\ pc' = [pc EXCEPT ![r] = "Diffed"]
              /\ UNCHANGED <<resp, failed>>
    /\ UNCHANGED <<built, ctx, req, raw, obj, mutatedJSON, out, spans, metrics>>

\* Faulty variant: the 'before' document is the raw payload decoded and encoded anew.
ReviewCreatePatchReencoded(r) ==
    /\ pc[r] = "Serialized"
    /\ calls' = [calls EXCEPT ![r].CreatePatch = @ + 1]
    /\ hist' = [hist EXCEPT ![r].patchBefore =
                                JSONRaw(Emit(MapOrder, Parse(raw[r].members))),
                            ![r].patchAfter = mutatedJSON[r]]
    /\ \E err \in CreatePatchErrors :
         IF err.isErr
         THEN /\ Deny(r, "CreatePatch", err)
              /\ UNCHANGED patch
         ELSE /\ \E p \in CreatePatch(JSONRaw(Emit(MapOrder, Parse(raw[r].members))),
                                      mutatedJSON[r]) :
                   patch' = [patch EXCEPT ![r] = p]
              /\ pc' = [pc EXCEPT ![r] = "Diffed"]
              /\ UNCHANGED <<resp, failed>>
    /\ UNCHANGED <<built, ctx, req, raw, obj, mutatedJSON, out, spans, metrics>>

ReviewCreatePatch(r) ==
    /\ pc[r] = "Serialized"
    /\ calls' = [calls EXCEPT ![r].CreatePatch = @ + 1]
    /\ hist' = [hist EXCEPT ![r].patchBefore = raw[r],
                            ![r].patchAfter = mutatedJSON[r]]
    /\ \E err \in CreatePatchErrors :
         IF err.isErr
         THEN /\ Deny(r, "CreatePatch", err)
              /\ UNCHANGED patch
         ELSE /\ \E p \in CreatePatch(raw[r], mutatedJSON[r]) :
                   patch' = [patch EXCEPT ![r] = p]
              /\ pc' = [pc EXCEPT ![r] = "Diffed"]
              /\ UNCHANGED <<resp, failed>>
    /\ UNCHANGED <<built, ctx, req, raw, obj, mutatedJSON, out, spans, metrics>>

\* json.Marshal of the patch may return an error.
MarshalPatchErrors == {Nil, Err("json: error calling MarshalJSON")}

\* Faulty variant: a marshalling error makes the review return nil.
ReviewRespondNilOnError(r) ==
    /\ pc[r] = "Diffed"
    /\ calls' = [calls EXCEPT ![r].MarshalPatch = @ + 1]
    /\ \E err \in MarshalPatchErrors :
         IF err.isErr
         THEN /\ failed' = [failed EXCEPT ![r] = "MarshalPatch"]
              /\ pc' = [pc EXCEPT ![r] = "Responded"]
              /\ UNCHANGED resp
         ELSE /\ resp' = [resp EXCEPT ![r] =
                            ForgeResponse(req[r].UID, MarshalPatch(patch[r]))]
              /\ pc' = [pc EXCEPT ![r] = "Responded"]
              /\ UNCHANGED failed
    /\ UNCHANGED <<built, ctx, req, raw, obj, mutatedJSON, patch, out, hist, spans,
                   metrics>>

\* The patch is marshalled and the allowed response forged.
ReviewRespond(r) ==
    /\ pc[r] = "Diffed"
    /\ calls' = [calls EXCEPT ![r].MarshalPatch = @ + 1]
    /\ \E err \in MarshalPatchErrors :
         IF err.isErr
         THEN Deny(r, "MarshalPatch", err)
         ELSE /\ resp' = [resp EXCEPT ![r] =
                            ForgeResponse(req[r].UID, MarshalPatch(patch[r]))]
              /\ pc' = [pc EXCEPT ![r] = "Responded"]
              /\ UNCHANGED failed
    /\ UNCHANGED <<built, ctx, req, raw, obj, mutatedJSON, patch, out, hist, spans,
                   metrics>>

(***************************************************************************)
(* Specifications                                                          *)
(***************************************************************************)
Step(r) ==
    \/ InstrumentStart(r)
    \/ ReviewSelect(r)
    \/ ReviewNewObject(r)
    \/ ReviewTypeAssert(r)
    \/ MutateCall(r)
    \/ MutateReturn(r)
    \/ ReviewMarshal(r)
    \/ ReviewCreatePatch(r)
    \/ ReviewRespond(r)
    \/ InstrumentEnd(r)

Next ==
    \/ Construct(ReviewConfigs)
    \/ Call("r1", Requests)
    \/ Step("r1")

Spec == Init /\ [][Next]_vars

\* A review that is running keeps running: every step but the Mutator's
\* return (the Mutator may block for ever) is taken once it can be.
Progress(r) ==
    \/ InstrumentStart(r)
    \/ ReviewSelect(r)
    \/ ReviewNewObject(r)
    \/ ReviewTypeAssert(r)
    \/ MutateCall(r)
    \/ ReviewMarshal(r)
    \/ ReviewCreatePatch(r)
    \/ ReviewRespond(r)
    \/ InstrumentEnd(r)

FairSpec == Spec /\ WF_vars(Progress("r1"))

\* Every configuration, a few requests.
NextConfig ==
    \/ Construct(Configs)
    \/ Call("r1", SampleRequests)
    \/ Step("r1")

ConfigSpec == Init /\ [][NextConfig]_vars

\* Two reviews on the same webhook, their steps interleaved in any way.
NextPair ==
    \/ Construct(ReviewConfigs)
    \/ \E r \in Reviews : Call(r, SampleRequests)
    \/ \E r \in Reviews : Step(r)

PairSpec == Init /\ [][NextPair]_vars

\* One review whose context may be cancelled at any point.
NextCtx ==
    \/ Construct(ReviewConfigs)
    \/ Call("r1", SampleRequests)
    \/ Cancel("r1")
    \/ Step("r1")

CtxSpec == Init /\ [][NextCtx]_vars

(***************************************************************************)
(* Properties                                                              *)
(***************************************************************************)
Responded(r) == pc[r] \in {"Responded", "Done"}

Denial(x) == ~x.nil /\ ~x.Allowed

\* C1: the bytes handed to objectCreator.NewObject are oldObject.raw when the
\* operation is Delete, even if object.raw is populated too, and object.raw
\* for every other operation.
C1_DeletePathSelection ==
    \A r \in Reviews :
        calls[r].NewObject > 0 =>
            hist[r].newObjectArg =
                IF req[r].Operation = "DELETE" THEN req[r].OldObject
                ELSE req[r].Object

\* A Delete whose two payloads are both documents, and differ, reached the
\* Reconstructor.
C1_Witness ==
    \E r \in Reviews :
        /\ calls[r].NewObject = 1
        /\ req[r].Operation = "DELETE"
        /\ req[r].Object.enc = "json" /\ req[r].OldObject.enc = "json"
        /\ Parse(req[r].Object.members) # Parse(req[r].OldObject.members)

\* The invariant of a ReviewOutcome.
ReviewOutcomeInvariant(x) ==
    /\ x.Patch.set => x.Allowed
    /\ x.Result.set => ~x.Allowed

\* C2: every response of a review, whatever stage ended it, carries a patch
\* only when Allowed is true and a failure reason (result message) only when
\* Allowed is false.
C2_ReviewOutcome ==
    \A r \in Reviews :
        /\ ~resp[r].nil => ReviewOutcomeInvariant(resp[r])
        /\ ~out[r].nil => ReviewOutcomeInvariant(out[r])

\* A patch had been computed when marshalling it failed, and the denial
\* handed back carries none.
C2_Witness ==
    \E r \in Reviews :
        /\ pc[r] = "Done" /\ failed[r] = "MarshalPatch"
        /\ patch[r] # <<>>
        /\ out[r].Result.set /\ ~out[r].Patch.set

\* C3: a response has Allowed=false if and only if one of the stages of its
\* review returned an error; where none did it has Allowed=true, whatever the
\* object and the mutation.
C3_DeniedIffStageError ==
    \A r \in Reviews :
        ~resp[r].nil => (resp[r].Allowed <=> failed[r] = "none")

\* A review whose Mutator dropped a label ended allowed, no stage failing.
C3_Witness ==
    \E r \in Reviews :
        /\ Responded(r) /\ failed[r] = "none" /\ resp[r].Allowed
        /\ hist[r].mutation.change = "delFoo"
        /\ obj[r] # hist[r].reconstructed

\* C4: when the Mutator returns an error the response has Allowed=false, no
\* patch, and the Mutator's error text, unchanged, as its failure reason.
C4_MutatorFailure ==
    \A r \in Reviews :
        (hist[r].mutation.returned /\ hist[r].mutation.err.isErr /\ Responded(r)) =>
            /\ Denial(resp[r])
            /\ ~resp[r].Patch.set
            /\ resp[r].Result.set
            /\ resp[r].Result.Message = hist[r].mutation.err.msg

\* The Mutator failed with "forbidden change" and the review was answered.
C4_Witness ==
    \E r \in Reviews :
        /\ Responded(r) /\ failed[r] = "Mutate"
        /\ hist[r].mutation.err = Err("forbidden change")

\* C5: when the selected raw bytes are empty or malformed, or the
\* Reconstructor returns an error for them, the response has Allowed=false,
\* no patch and a non-empty failure reason.
C5_DecodeFailure ==
    \A r \in Reviews :
        (Responded(r) /\ (raw[r].enc \in {"empty", "malformed"} \/ failed[r] = "NewObject")) =>
            /\ Denial(resp[r])
            /\ ~resp[r].Patch.set
            /\ resp[r].Result.set /\ resp[r].Result.Message # ""

\* A well-formed document that the static type cannot hold was denied.
C5_Witness ==
    \E r \in Reviews :
        /\ Responded(r) /\ failed[r] = "NewObject"
        /\ raw[r].enc = "json"
        /\ resp[r].Result.Message = "decode: incompatible with the type"

\* Applying a patch to a document, operation by operation (RFC 6902 on
\* flat documents).
ApplyOp(doc, o) ==
    IF o.op = "remove" THEN Restrict(doc, (DOMAIN doc) \ {o.path})
    ELSE [k \in (DOMAIN doc) \cup {o.path} |->
            IF k = o.path THEN o.value ELSE doc[k]]

RECURSIVE ApplyPatch(_, _)
ApplyPatch(doc, ops) ==
    IF ops = <<>> THEN doc ELSE ApplyPatch(ApplyOp(doc, Head(ops)), Tail(ops))

\* C6: no-op idempotence: when the object decodes, the Mutator changes
\* nothing and returns no error (and no later stage fails), the response has
\* Allowed=true and the empty patch.  The static webhook breaks it on a
\* payload with a member its type does not declare.
C6_NoOpIdempotence ==
    \A r \in Reviews :
        (/\ Responded(r) /\ failed[r] = "none"
         /\ hist[r].mutation.returned /\ ~hist[r].mutation.err.isErr
         /\ obj[r] = hist[r].reconstructed) =>
            /\ resp[r].Allowed
            /\ resp[r].Patch = MarshalPatch(<<>>)

\* C7: round-trip law: the patch of an allowed response, applied in order to
\* the selected raw bytes, yields the re-serialised mutated object, up to
\* structural equality.
C7_RoundTrip ==
    \A r \in Reviews :
        (~resp[r].nil /\ resp[r].Allowed) =>
            ApplyPatch(Parse(raw[r].members), resp[r].Patch.ops)
                = Parse(mutatedJSON[r].members)

\* An allowed response whose patch both sets a label and removes a member
\* the static type had dropped.
C7_Witness ==
    \E r \in Reviews :
        /\ Responded(r) /\ resp[r].Allowed
        /\ \E i, j \in 1..Len(resp[r].Patch.ops) :
             /\ resp[r].Patch.ops[i].op = "replace"
             /\ resp[r].Patch.ops[j].op = "remove"

\* C8 as claimed: in every review, from Start to Responded, the Mutator is
\* invoked exactly once.
C8_ExactlyOnce ==
    \A r \in Reviews : Responded(r) => calls[r].Mutate = 1

\* C8 as amended: the Mutator is invoked at most once per request, on the
\* reconstructed object: exactly once in a review whose reconstruction and
\* type assertion succeeded, never in one that failed before.
C8_OnceIfDecoded ==
    \A r \in Reviews :
        /\ calls[r].Mutate <= 1
        /\ pc[r] = "Mutating" => obj[r] = hist[r].reconstructed
        /\ Responded(r) =>
             calls[r].Mutate = IF failed[r] \in {"NewObject", "TypeAssert"} THEN 0 ELSE 1

\* A review whose Mutator ran handed its response back.
C8_Witness ==
    \E r \in Reviews :
        /\ pc[r] = "Done" /\ calls[r].Mutate = 1
        /\ hist[r].mutation.change = "setFoo"

\* The outcomes of steps 5 and 6 of the Review Engine.
Step5(x) == x.Allowed /\ x.Patch.set /\ ~x.Result.set

Step6(x) == ~x.Allowed /\ x.Result.set /\ ~x.Patch.set

\* A review has no response before it is Responded, and then one that is
\* not nil and is the outcome of exactly one of the two steps.
OneResponse(r) ==
    /\ Responded(r) => (~resp[r].nil /\ (Step5(resp[r]) # Step6(resp[r])))
    /\ ~Responded(r) => resp[r].nil
    /\ pc[r] = "Done" => ~out[r].nil

\* C9: a review whose Mutator call returned reaches Responded, through
\* exactly one of the allowed outcome with its patch (step 5) and the denial
\* (step 6): one response, never none, never a second one, never nil.
C9_Terminal ==
    /\ [](\A r \in Reviews : OneResponse(r))
    /\ [][\A r \in Reviews : ~resp[r].nil => resp'[r] = resp[r]]_vars
    /\ \A r \in Reviews : hist[r].mutation.returned ~> Responded(r)

\* The Mutator returned without error, the diff failed, and the denial was
\* handed back.
C9_Witness ==
    \E r \in Reviews :
        /\ pc[r] = "Done" /\ failed[r] = "CreatePatch"
        /\ hist[r].mutation.returned /\ Step6(out[r])

\* The spans started for a review.
SpansOf(r) == {i \in 1..Len(spans) : spans[i].owner = r}

\* C10: one metric sample and one span per review made through the webhook
\* of NewWebhook, whatever ended the review: a span is started as the review
\* starts and finished as it ends, and a sample recorded as it ends.
C10_MetricTraceCoverage ==
    /\ Len(metrics) = Cardinality({r \in Reviews : pc[r] = "Done"})
    /\ \A r \in Reviews :
         /\ Cardinality(SpansOf(r)) = IF pc[r] \in {"Idle", "Called"} THEN 0 ELSE 1
         /\ \A i \in SpansOf(r) : spans[i].finished <=> pc[r] = "Done"

\* A review denied for a serialisation failure left one sample and one
\* finished span.
C10_Witness ==
    \E r \in Reviews :
        /\ pc[r] = "Done" /\ failed[r] = "Marshal"
        /\ Len(metrics) = 1 /\ metrics[1].allowed = FALSE
        /\ Len(spans) = 1 /\ spans[1].finished

\* C11: the instrumentation never changes the outcome: what the webhook of
\* NewWebhook hands back is the response mutationWebhook.Review returned for
\* the request, and nothing is handed back before the review has returned.
C11_DecoratorTransparent ==
    \A r \in Reviews :
        IF pc[r] = "Done" THEN ~out[r].nil /\ out[r] = resp[r]
        ELSE out[r].nil

\* An allowed response with a patch of two operations and a denial were
\* both possible; here the allowed one was handed back through the
\* instrumentation, which recorded it.
C11_Witness ==
    \E r \in Reviews :
        /\ pc[r] = "Done" /\ w.instrumented
        /\ out[r].Allowed /\ Len(out[r].Patch.ops) = 2
        /\ Len(metrics) = 1 /\ metrics[1].allowed

\* C12: NewWebhook with an empty Name or without a Mutator returns an error
\* and no webhook, so that no review ever runs; with both it returns a
\* webhook and no error, a nil Logger, MetricsRecorder or Tracer replaced by
\* the no-op one and the ones given kept.
C12_Configuration ==
    built.called =>
        LET c == built.given
        IN  IF c.Name = "" \/ ~c.Mutator
            THEN /\ built.err.isErr
                 /\ built.err.msg = "invalid configuration: " \o
                        (IF c.Name = "" THEN "name is required" ELSE "mutator is required")
                 /\ built.webhook.nil
                 /\ \A r \in Reviews : pc[r] = "Idle"
            ELSE /\ ~built.err.isErr
                 /\ ~built.webhook.nil
                 /\ built.webhook.cfg.Name = c.Name
                 /\ built.webhook.cfg.Logger = (IF c.Logger = "nil" THEN "dummy" ELSE c.Logger)
                 /\ built.webhook.MetricsRecorder =
                        (IF c.MetricsRecorder = "nil" THEN "dummy" ELSE c.MetricsRecorder)
                 /\ built.webhook.Tracer = (IF c.Tracer = "nil" THEN "dummy" ELSE c.Tracer)

\* A webhook built with a Tracer of its own and no Logger and no
\* MetricsRecorder has answered a review.
C12_Witness ==
    /\ built.called /\ ~built.webhook.nil
    /\ built.given.Logger = "nil" /\ built.given.MetricsRecorder = "nil"
    /\ built.given.Tracer = "user"
    /\ pc["r1"] = "Done"

\* Two responses that differ at most in the order of the patch operations
\* (CreatePatch fixes no order).
OpsOf(x) == {x.Patch.ops[i] : i \in 1..Len(x.Patch.ops)}

SameResponse(x, y) ==
    /\ [x EXCEPT !.Patch.ops = <<>>] = [y EXCEPT !.Patch.ops = <<>>]
    /\ Len(x.Patch.ops) = Len(y.Patch.ops)
    /\ OpsOf(x) = OpsOf(y)

MutatedOK(r) == hist[r].mutation.returned /\ ~hist[r].mutation.err.isErr

\* C13: the Mutator's stop flag has no effect: with stop=true and no error
\* the serialisation and the diff still run and the review is denied only if
\* one of them fails, and its response is the one of a review of the same
\* request whose Mutator made the same change with stop=false.
C13_StopNoEffect ==
    /\ \A r \in Reviews :
         (Responded(r) /\ MutatedOK(r) /\ hist[r].mutation.stop) =>
            /\ calls[r].Marshal = 1
            /\ failed[r] # "Marshal" => calls[r].CreatePatch = 1
            /\ resp[r].Allowed <=> failed[r] = "none"
    /\ \A r, q \in Reviews :
         (/\ Responded(r) /\ Responded(q)
          /\ MutatedOK(r) /\ MutatedOK(q)
          /\ req[r] = req[q]
          /\ hist[r].mutation.change = hist[q].mutation.change
          /\ hist[r].mutation.stop /\ ~hist[q].mutation.stop
          /\ failed[r] = failed[q]) =>
            SameResponse(resp[r], resp[q])

\* Two reviews of the same request, the label set in both, stop=true in one
\* only, both answered with a patch.
C13_Witness ==
    /\ Responded("r1") /\ Responded("r2")
    /\ req["r1"] = req["r2"]
    /\ hist["r1"].mutation = [err |-> Nil, change |-> "setFoo", stop |-> TRUE, returned |-> TRUE]
    /\ hist["r2"].mutation = [err |-> Nil, change |-> "setFoo", stop |-> FALSE, returned |-> TRUE]
    /\ resp["r1"].Allowed /\ resp["r2"].Allowed
    /\ Len(resp["r1"].Patch.ops) = 2

\* C14: every response, allowed or denied, whichever stage ended the review,
\* carries the UID of its request.
C14_UIDEchoed ==
    \A r \in Reviews :
        /\ ~resp[r].nil => resp[r].UID = req[r].UID
        /\ ~out[r].nil => out[r].UID = req[r].UID

\* A review of request u2 answered with a patch and handed back to the caller.
C14_Witness ==
    /\ pc["r1"] = "Done"
    /\ req["r1"].UID = "u2"
    /\ out["r1"].Allowed
    /\ out["r1"].Patch.ops # <<>>

\* A stage is invoked in this step of review r.
Invoked(r, stage) == calls'[r][stage] > calls[r][stage]

\* C15: the stages run only in the order Reconstructor, Mutator,
\* serialisation, Patch Computer, response, each one only after the one
\* before it succeeded; once a stage has failed no stage is invoked any more
\* in that review.
C15_StageOrder ==
    [][\A r \in Reviews :
         /\ Invoked(r, "NewObject") => failed[r] = "none" /\ calls[r] = NoCalls
         /\ Invoked(r, "Mutate") =>
               /\ failed[r] = "none"
               /\ calls[r].NewObject = 1 /\ calls[r].Marshal = 0
               /\ obj[r] # NoObject /\ obj[r] = hist[r].reconstructed
         /\ Invoked(r, "Marshal") =>
               /\ failed[r] = "none"
               /\ calls[r].Mutate = 1 /\ calls[r].CreatePatch = 0
               /\ MutatedOK(r)
         /\ Invoked(r, "CreatePatch") =>
               /\ failed[r] = "none"
               /\ calls[r].Marshal = 1 /\ calls[r].MarshalPatch = 0
               /\ mutatedJSON[r] = Marshal(obj[r])
         /\ Invoked(r, "MarshalPatch") =>
               /\ failed[r] = "none"
               /\ calls[r].CreatePatch = 1
         /\ (resp[r].nil /\ ~resp'[r].nil /\ resp'[r].Allowed) =>
               Invoked(r, "MarshalPatch")
         /\ failed[r] # "none" =>
               /\ failed'[r] = failed[r]
               /\ calls'[r] = calls[r]
               /\ resp'[r] = resp[r]
      ]_vars

\* A review whose serialisation failed has ended without a diff.
C15_Witness ==
    /\ pc["r1"] = "Done"
    /\ failed["r1"] = "Marshal"
    /\ calls["r1"] = [NewObject |-> 1, Mutate |-> 1, Marshal |-> 1,
                      CreatePatch |-> 0, MarshalPatch |-> 0]

Stages == {"NewObject", "Mutate", "Marshal", "CreatePatch", "MarshalPatch"}

\* C16: no retries: within one review every stage is invoked at most once,
\* and a stage that failed was invoked exactly once and the review was
\* answered with the denial in that very step.
C16_NoRetries ==
    [][\A r \in Reviews :
         /\ \A s \in Stages : calls'[r][s] <= 1
         /\ (failed[r] = "none" /\ failed'[r] # "none") =>
               /\ failed'[r] \in Stages => calls'[r][failed'[r]] = 1
               /\ pc'[r] = "Responded"
               /\ Denial(resp'[r])
               /\ \A s \in Stages \ {failed'[r]} : calls'[r][s] = calls[r][s]
      ]_vars

\* A review denied by a failure of the Patch Computer, every stage up to it
\* invoked once.
C16_Witness ==
    /\ pc["r1"] = "Responded"
    /\ failed["r1"] = "CreatePatch"
    /\ calls["r1"] = [NewObject |-> 1, Mutate |-> 1, Marshal |-> 1,
                      CreatePatch |-> 1, MarshalPatch |-> 0]

\* C17: the 'before' document given to CreatePatch is, byte for byte, the
\* raw payload that was selected and given to NewObject in the same review
\* (oldObject.raw on Delete, object.raw otherwise); the 'after' document is
\* the serialisation of the object after the Mutator ran.
C17_PatchInputs ==
    \A r \in Reviews :
        calls[r].CreatePatch > 0 =>
            /\ hist[r].patchBefore = hist[r].newObjectArg
            /\ hist[r].patchBefore =
                  (IF req[r].Operation = "DELETE" THEN req[r].OldObject
                   ELSE req[r].Object)
            /\ hist[r].patchAfter = Marshal(obj[r])
            /\ hist[r].patchAfter =
                  Marshal(Mutate(hist[r].reconstructed, hist[r].mutation))

\* A deletion whose old object is neither in the encoder's member order nor
\* what the decoded object serialises to, diffed after the Mutator set the
\* label.
C17_Witness ==
    /\ calls["r1"].CreatePatch = 1
    /\ req["r1"].Operation = "DELETE"
    /\ hist["r1"].patchBefore # JSONRaw(Emit(MapOrder, Parse(hist["r1"].patchBefore.members)))
    /\ hist["r1"].patchBefore # Marshal(hist["r1"].reconstructed)
    /\ hist["r1"].mutation.change = "setFoo"
    /\ hist["r1"].patchAfter # Marshal(hist["r1"].reconstructed)

\* Everything one review holds.
Own(r) ==
    <<req[r], pc[r], raw[r], obj[r], mutatedJSON[r], patch[r], resp[r], out[r],
      calls[r], failed[r], hist[r]>>

\* The object and the response of review r as its own request and the
\* results of its own stages determine them.
Alone(r) ==
    LET sel == SelectRaw(req[r])
        rec == NewObject(w.objectCreator, sel, hist[r].reconstructed.meta).obj
        after == Marshal(Mutate(rec, hist[r].mutation))
    IN  /\ calls[r].NewObject = 1 => hist[r].reconstructed = rec
        /\ hist[r].mutation.returned => obj[r] = Mutate(rec, hist[r].mutation)
        /\ calls[r].CreatePatch = 1 => hist[r].patchAfter = after
        /\ (Responded(r) /\ failed[r] = "none") =>
              \E p \in CreatePatch(sel, after) :
                  resp[r] = ForgeResponse(req[r].UID, MarshalPatch(p))
        /\ (Responded(r) /\ failed[r] = "Mutate") =>
              resp[r] = toAdmissionErrorResponse(req[r], hist[r].mutation.err)
        /\ (Responded(r) /\ failed[r] # "none") => Denial(resp[r])

\* C18: concurrent reviews on one webhook do not interfere: under any
\* interleaving a step of one review changes nothing another review holds,
\* and the object, the patch and the response of each review are the ones
\* its own request and its own Mutator's change give.
C18_NoInterference ==
    /\ [](\A r \in Reviews : Alone(r))
    /\ [][\A r, q \in Reviews : (r # q /\ Own(r)' # Own(r)) => Own(q)' = Own(q)]_vars

\* Two reviews of the same request in flight together; the Mutator set the
\* label in one and changed nothing in the other, and both were answered.
C18_Witness ==
    /\ Responded("r1") /\ Responded("r2")
    /\ req["r1"] = req["r2"]
    /\ hist["r1"].mutation.change = "setFoo"
    /\ hist["r2"].mutation.change = "none"
    /\ resp["r1"].Allowed /\ resp["r2"].Allowed
    /\ OpsOf(resp["r1"]) # OpsOf(resp["r2"])
    /\ obj["r1"] # obj["r2"]

\* C19: a review leaves its inputs as they were: from the call on the request
\* (UID, operation, object.raw, oldObject.raw) never changes, the configured
\* object and the webhook stay as NewWebhook left them, and the step in which
\* the Mutator returns changes the reconstructed object only.
C19_InputsUnchanged ==
    /\ [](built.called =>
             built.proto = (IF built.given.Obj THEN Prototype ELSE NoObject))
    /\ [][\A r \in Reviews :
            /\ pc[r] # "Idle" => req'[r] = req[r]
            /\ built.called => built' = built
            /\ pc[r] = "Mutating" =>
                  /\ raw'[r] = raw[r]
                  /\ hist'[r].newObjectArg = hist[r].newObjectArg
                  /\ hist'[r].reconstructed = hist[r].reconstructed
                  /\ mutatedJSON' = mutatedJSON
         ]_vars

\* A review under a configured object, ended, in which the Mutator changed
\* the reconstructed object; the request still holds the selected payload.
C19_Witness ==
    /\ pc["r1"] = "Done"
    /\ built.given.Obj
    /\ built.proto = Prototype
    /\ hist["r1"].mutation.returned
    /\ obj["r1"] # hist["r1"].reconstructed
    /\ SelectRaw(req["r1"]) = hist["r1"].newObjectArg
    /\ Marshal(obj["r1"]) # hist["r1"].newObjectArg

\* C20: a cancelled context is no failure path of its own: a review whose
\* context is cancelled is denied only by the error a stage returned, an
\* error the Mutator returns for the cancellation is answered like any other
\* Mutator error, and when the Mutator returns no error the review goes on
\* to the serialisation, the diff and, if those succeed, the allowed response.
C20_CancellationNotDistinct ==
    \A r \in Reviews :
        (ctx[r].cancelled /\ Responded(r)) =>
            /\ Denial(resp[r]) <=> failed[r] # "none"
            /\ failed[r] \in Stages \cup {"TypeAssert", "none"}
            /\ failed[r] = "Mutate" =>
                  /\ hist[r].mutation.err.isErr
                  /\ resp[r] = toAdmissionErrorResponse(req[r], hist[r].mutation.err)
            /\ MutatedOK(r) =>
                  /\ failed[r] # "Mutate"
                  /\ calls[r].Marshal = 1
                  /\ failed[r] # "Marshal" => calls[r].CreatePatch = 1
                  /\ failed[r] = "none" => resp[r].Allowed /\ resp[r].Patch.set

\* The context was cancelled before the Mutator was called, the Mutator
\* returned no error and the review ended with the allowed response.
C20_Witness ==
    /\ ctx["r1"].cancelled
    /\ ctx["r1"].at \in {"Called", "Start", "Selected", "Created", "Decoded"}
    /\ pc["r1"] = "Done"
    /\ MutatedOK("r1")
    /\ out["r1"].Allowed
    /\ out["r1"].Patch.ops # <<>>

====
